---------------------------- MODULE Spec2Model ----------------------------
(***************************************************************************)
(* Model of the "Open with" plugin (src/main.ts): the settings object and  *)
(* its persistence, the commands registered with the host, the file-menu   *)
(* handler and the handlers of the settings tab.                           *)
(*                                                                         *)
(* Strings are sequences of atoms (one atom per character; a literal of    *)
(* the source that is never taken apart is one atom).                      *)
(*                                                                         *)
(* The app objects live in arrays; an array never holds one object twice,  *)
(* so an object of an array is known by its position in it.  A closure     *)
(* that holds an app object (a row of the settings tab) is modelled by the *)
(* fields it reads and by the position the object has now in settings.apps *)
(* and in DEFAULT_SETTINGS.apps, 0 when the object is not in that array:   *)
(* `this[i] === app` is `i = at`, whatever the fields of other objects.    *)
(***************************************************************************)
EXTENDS Naturals, Sequences, FiniteSets

VARIABLES
    persisted,         \* the data document kept by the host storage (loadData/saveData)
    DEFAULT_SETTINGS,  \* the module-level default object (main.ts:16)
    settings,          \* OpenWithPlugin.settings
    aliased,           \* settings.apps is the very array DEFAULT_SETTINGS.apps
    commands,          \* the host's command table: id -> registered command
    displayed,         \* display() has built the settings tab
    rows,              \* the app objects held by the rendered rows of the settings tab
    menu,              \* the items of the file menu built last and still open
    pending,           \* saves handed to the host and not yet written, oldest first
    out                \* what the last step was and what it produced

vars == <<persisted, DEFAULT_SETTINGS, settings, aliased, commands, displayed, rows, menu,
          pending, out>>

(***************************************************************************)
(* Bounds of the model.                                                    *)
(***************************************************************************)
MaxApps == 2
MaxPending == 2

(***************************************************************************)
(* Inputs.                                                                 *)
(***************************************************************************)
\* what the user may have typed into the three text fields when clicking "+"
AddInputs == { [name |-> <<"A">>, code |-> <<"x">>, args |-> <<>>],
               [name |-> <<"a">>, code |-> <<"y">>, args |-> <<"p", ",", "q">>],
               [name |-> <<>>, code |-> <<"x">>, args |-> <<>>],
               [name |-> <<"A">>, code |-> <<>>, args |-> <<"p", ",", "q">>] }
NoFile == <<>>
Files == {<<"n", "/", "a">>}
basePath == <<"/", "v">>

(***************************************************************************)
(* String functions.                                                       *)
(***************************************************************************)
\* String.prototype.toLowerCase, atom by atom
LowerAtom(c) == CASE c = "A" -> "a" [] c = "B" -> "b" [] OTHER -> c
toLowerCase(s) == [i \in 1..Len(s) |-> LowerAtom(s[i])]

\* s.split(","): the pieces between the commas; "" gives one empty piece
RECURSIVE SplitFrom(_, _, _)
SplitFrom(s, i, cur) ==
    IF i > Len(s) THEN <<cur>>
    ELSE IF s[i] = "," THEN <<cur>> \o SplitFrom(s, i + 1, <<>>)
    ELSE SplitFrom(s, i + 1, Append(cur, s[i]))
split(s) == SplitFrom(s, 1, <<>>)

\* normalizePath of the host: every run of separators becomes one "/"
IsSep(c) == c = "/" \/ c = "\\"
RECURSIVE CollapseFrom(_, _, _)
CollapseFrom(s, i, prevSep) ==
    IF i > Len(s) THEN <<>>
    ELSE IF IsSep(s[i])
         THEN (IF prevSep THEN <<>> ELSE <<"/">>) \o CollapseFrom(s, i + 1, TRUE)
         ELSE <<s[i]>> \o CollapseFrom(s, i + 1, FALSE)
normalizePath(s) == CollapseFrom(s, 1, FALSE)

\* path.replace(/\//g, "\\")
replaceSlashes(s) == [i \in 1..Len(s) |-> IF s[i] = "/" THEN "\\" ELSE s[i]]

getAbsolutePathOfFile(file, win) ==
    LET path == normalizePath(basePath \o <<"/">> \o file)
    IN  IF win THEN replaceSlashes(path) ELSE path

(***************************************************************************)
(* Objects, documents, side effects.                                       *)
(***************************************************************************)
\* Object.assign({}, a, b) on objects seen as functions from field names
Assign(a, b) ==
    [k \in DOMAIN a \cup DOMAIN b |-> IF k \in DOMAIN b THEN b[k] ELSE a[k]]

EmptyDoc == [k \in {} |-> TRUE]               \* no data stored: every field missing

\* what a closure keeps of an app object and reads later: name, code and
\* arguments, which are never assigned after the object is created
Captured(o) == [name |-> o.name, code |-> o.code, arguments |-> o.arguments]
NoApp == [name |-> <<>>, code |-> <<>>, arguments |-> <<>>]
NoRow == [app |-> NoApp, at |-> 0, atDef |-> 0]

\* open(path, {app: {name, arguments}})
Launch(path, code, arguments) ==
    [kind |-> "launch", target |-> code, path |-> path, args |-> arguments]
ClipboardWrite(path) ==
    [kind |-> "clipboard", target |-> <<>>, path |-> path, args |-> <<>>]
Reveal(path) ==
    [kind |-> "reveal", target |-> <<>>, path |-> path, args |-> <<>>]

Out(op) == [op |-> op, id |-> <<>>, checking |-> FALSE, ret |-> FALSE,
            effects |-> <<>>, notice |-> "", row |-> NoRow,
            file |-> NoFile]


(***************************************************************************)
(* Loading and saving.                                                     *)
(***************************************************************************)
\* the object literal of main.ts:16-19, as the module holds it when evaluated
DefaultSettingsLiteral == [apps |-> <<>>, sysexpInFileMenu |-> FALSE]

\* loadSettings: Object.assign({}, DEFAULT_SETTINGS, await this.loadData()).
\* The merge is shallow: a document with apps gives settings.apps a new array
\* of new objects, a document without apps leaves the array of
\* DEFAULT_SETTINGS itself in settings.apps.
loadSettings(def, doc) == Assign(def, doc)
loadAliases(doc) == "apps" \notin DOMAIN doc

\* saveSettings: saveData(this.settings) takes the document to write, every
\* field of the settings object as it is at the call; the write completes later
\* a save that stores the registry alone
saveSettingsAppsOnly(s) == [k \in DOMAIN s \cap {"apps"} |-> s[k]]

saveSettings(s) == [k \in DOMAIN s |-> s[k]]
\* a save started before the handler's change: it stores the settings as the
\* handler found them
SaveStale(s, then) ==
    Append(pending, [doc |-> [k \in DOMAIN settings |-> settings[k]], then |-> then])

Save(s, then) == Append(pending, [doc |-> saveSettings(s), then |-> then])

(***************************************************************************)
(* Commands.                                                               *)
(***************************************************************************)
CopyId == <<"copy-absolute-file-path">>
ShowId == <<"show-file-in-explorer">>
OpenId(name) == <<"open-file-with-">> \o toLowerCase(name)

\* Plugin.addCommand: the host keeps one command per id, the last one added
addCommand(cmds, id, cmd) ==
    [k \in DOMAIN cmds \cup {id} |-> IF k = id THEN cmd ELSE cmds[k]]

CopyCommand == [kind |-> "copy", code |-> <<>>, arguments |-> <<>>]
ShowCommand == [kind |-> "show", code |-> <<>>, arguments |-> <<>>]
OpenCommand(code, arguments) == [kind |-> "open", code |-> code, arguments |-> arguments]

\* this.settings.apps.forEach(app => this.addCommand(...)) of onload
RECURSIVE RegisterApps(_, _, _)
RegisterApps(cmds, apps, i) ==
    IF i > Len(apps) THEN cmds
    ELSE RegisterApps(addCommand(cmds, OpenId(apps[i].name),
                                 OpenCommand(apps[i].code, apps[i].arguments)),
                      apps, i + 1)

onloadCommands(apps) ==
    RegisterApps(addCommand(addCommand(EmptyDoc, CopyId, CopyCommand),
                            ShowId, ShowCommand),
                 apps, 1)

\* the side effect of a command on the focused file
CommandEffect(cmd, file, win) ==
    LET path == getAbsolutePathOfFile(file, win)
    IN  CASE cmd.kind = "copy" -> ClipboardWrite(path)
          [] cmd.kind = "show" -> Reveal(path)
          [] OTHER -> Launch(path, cmd.code, split(cmd.arguments))

\* the checkCallback shared by all commands
\* a callback that has its effect in the host's check pass as well
checkCallbackEager(cmd, file, checking, win) ==
    IF file # NoFile
    THEN [ret |-> TRUE, effects |-> <<CommandEffect(cmd, file, win)>>]
    ELSE [ret |-> FALSE, effects |-> <<>>]

checkCallback(cmd, file, checking, win) ==
    IF file # NoFile
    THEN [ret |-> TRUE,
          effects |-> IF ~checking THEN <<CommandEffect(cmd, file, win)>> ELSE <<>>]
    ELSE [ret |-> FALSE, effects |-> <<>>]

(***************************************************************************)
(* The file menu.                                                          *)
(***************************************************************************)
OpenTitle(name) == <<"Open with ">> \o name
ShowTitle == <<"Show in system explorer">>

\* this.settings.apps.forEach(app => { if (app.showInMenu) menu.addItem(...) })
RECURSIVE AppItems(_, _, _)
AppItems(apps, i, file) ==
    IF i > Len(apps) THEN <<>>
    ELSE (IF apps[i].showInMenu
          THEN <<[title |-> OpenTitle(apps[i].name), kind |-> "open",
                  app |-> Captured(apps[i]), file |-> file]>>
          ELSE <<>>) \o AppItems(apps, i + 1, file)

\* a menu with an item for every entry, whatever its showInMenu
fileMenuAllApps(s, file) ==
    [i \in 1..Len(s.apps) |->
        [title |-> OpenTitle(s.apps[i].name), kind |-> "open",
         app |-> Captured(s.apps[i]), file |-> file]]
    \o (IF s.sysexpInFileMenu
        THEN <<[title |-> ShowTitle, kind |-> "show", app |-> NoApp, file |-> file]>>
        ELSE <<>>)

fileMenuHandlerCreateNew(s, file) ==
    AppItems(s.apps, 1, file)
    \o (IF s.sysexpInFileMenu
        THEN <<[title |-> ShowTitle, kind |-> "show", app |-> NoApp, file |-> file]>>
        ELSE <<>>)

\* the onClick of a menu item
ItemEffect(item, win) ==
    LET path == getAbsolutePathOfFile(item.file, win)
    IN  IF item.kind = "open"
        THEN Launch(path, item.app.code, split(item.app.arguments))
        ELSE Reveal(path)

(***************************************************************************)
(* The settings tab.                                                       *)
(***************************************************************************)
\* display(): one row per app of the registry, each closing over its app object
display(apps, alias) ==
    [i \in 1..Len(apps) |->
        [app |-> Captured(apps[i]), at |-> i, atDef |-> IF alias THEN i ELSE 0]]

\* if (name && code)
\* a guard that asks for the name only
AddGuardNameOnly(name, code) == name # <<>>

AddGuard(name, code) == name # <<>> /\ code # <<>>

\* this.plugin.settings.apps.push({name, code, arguments: args, showInMenu: false})
push(apps, name, code, args) ==
    Append(apps, [name |-> name, code |-> code, arguments |-> args,
                  showInMenu |-> FALSE])

\* apps.remove(app) of the host's Array.prototype: drops the element that is
\* the object app, which is the one at position `at` (none when at = 0)
\* a removal by the values of the fields: every entry equal to the one at `at`
removeEqual(apps, at) ==
    IF at \in 1..Len(apps)
    THEN SelectSeq(apps, LAMBDA e : e # apps[at])
    ELSE apps

remove(apps, at) == [i \in 1..(Len(apps) - (IF at \in 1..Len(apps) THEN 1 ELSE 0)) |->
                        IF at = 0 \/ i < at THEN apps[i] ELSE apps[i + 1]]

\* where an object that was at position p is after the removal of position at
Moved(p, at) == IF at = 0 \/ p < at THEN p ELSE IF p = at THEN 0 ELSE p - 1

\* app.showInMenu = value, seen from an array that holds the object at `at`
setShowInMenu(apps, at, value) ==
    [i \in 1..Len(apps) |->
        IF i = at THEN [apps[i] EXCEPT !.showInMenu = value] ELSE apps[i]]

AddNotice == "Display Name & Path/Command are always neccessary."
RemoveNotice == "You need to restart Obsidian for these changes to take effect."

(***************************************************************************)
(* Initial state and steps.                                                *)
(***************************************************************************)
\* documents the storage may hold when the plugin is first loaded
InitApp == [name |-> <<"A">>, code |-> <<"x">>, arguments |-> <<>>, showInMenu |-> TRUE]
InitDocs == { EmptyDoc,
              [sysexpInFileMenu |-> TRUE],
              [apps |-> <<InitApp>>, sysexpInFileMenu |-> FALSE] }

\* onload() in a process that has just evaluated the module
Onload(doc) ==
    /\ DEFAULT_SETTINGS' = DefaultSettingsLiteral
    /\ settings' = loadSettings(DefaultSettingsLiteral, doc)
    /\ aliased' = loadAliases(doc)
    /\ commands' = onloadCommands(settings'.apps)
    /\ displayed' = FALSE
    /\ rows' = <<>>
    /\ menu' = <<>>
    /\ pending' = <<>>
    /\ out' = Out("onload")

Init ==
    \E doc \in InitDocs :
        /\ persisted = doc
        /\ DEFAULT_SETTINGS = DefaultSettingsLiteral
        /\ settings = loadSettings(DefaultSettingsLiteral, doc)
        /\ aliased = loadAliases(doc)
        /\ commands = onloadCommands(settings.apps)
        /\ displayed = FALSE
        /\ rows = <<>>
        /\ menu = <<>>
        /\ pending = <<>>
        /\ out = Out("onload")

\* the application is closed and started again: saves not yet written are lost
Restart ==
    /\ Onload(persisted)
    /\ UNCHANGED persisted

\* the host calls the checkCallback of a registered command; `file` is what
\* workspace.getActiveFile() returns to this call (NoFile: no focused document)
\* and `win` whether this call finds the Win32 desktop platform
RunCommand(id, checking, file, win) ==
    /\ id \in DOMAIN commands
    /\ LET r == checkCallback(commands[id], file, checking, win)
       IN  out' = [Out("command") EXCEPT !.id = id, !.checking = checking,
                                         !.file = file,
                                         !.ret = r.ret, !.effects = r.effects]
    /\ menu' = <<>>
    /\ UNCHANGED <<persisted, DEFAULT_SETTINGS, settings, aliased, commands, displayed,
                   rows, pending>>

\* the host emits "file-menu" for a file
FileMenu(file) ==
    /\ menu' = fileMenuHandlerCreateNew(settings, file)
    /\ out' = [Out("file-menu") EXCEPT !.file = file]
    /\ UNCHANGED <<persisted, DEFAULT_SETTINGS, settings, aliased, commands, displayed,
                   rows, pending>>

\* the user activates item i of the open menu
ClickMenuItem(i, win) ==
    /\ i \in 1..Len(menu)
    /\ out' = [Out("menu-click") EXCEPT !.effects = <<ItemEffect(menu[i], win)>>,
                                        !.row = [NoRow EXCEPT !.app = menu[i].app],
                                        !.file = menu[i].file,
                                        !.id = menu[i].title]
    /\ menu' = <<>>
    /\ UNCHANGED <<persisted, DEFAULT_SETTINGS, settings, aliased, commands, displayed,
                   rows, pending>>

\* the user opens the settings tab: display()
Display ==
    /\ displayed' = TRUE
    /\ rows' = display(settings.apps, aliased)
    /\ menu' = <<>>
    /\ out' = Out("display")
    /\ UNCHANGED <<persisted, DEFAULT_SETTINGS, settings, aliased, commands,
                   pending>>

\* an assignment to the array settings.apps reaches DEFAULT_SETTINGS.apps when
\* the two are one array
WriteApps(apps) ==
    /\ settings' = [settings EXCEPT !.apps = apps]
    /\ DEFAULT_SETTINGS' = IF aliased THEN [DEFAULT_SETTINGS EXCEPT !.apps = apps]
                           ELSE DEFAULT_SETTINGS

\* the onClick of the "+" button
AddClick(name, code, args) ==
    /\ displayed
    /\ menu' = <<>>
    /\ IF AddGuard(name, code)
       THEN /\ Len(settings.apps) < MaxApps
            /\ Len(pending) < MaxPending
            /\ commands' = addCommand(commands, OpenId(name), OpenCommand(code, args))
            /\ WriteApps(push(settings.apps, name, code, args))
            /\ pending' = Save(settings', "display")
            /\ out' = Out("add")
       ELSE /\ out' = [Out("add") EXCEPT !.notice = AddNotice]
            /\ UNCHANGED <<DEFAULT_SETTINGS, settings, commands, pending>>
    /\ UNCHANGED <<persisted, aliased, displayed, rows>>

\* what the toggle of a row shows: the showInMenu of its app object, which it
\* was rendered with and which only its own onChange assigns
Shown(row) ==
    IF row.at # 0 THEN settings.apps[row.at].showInMenu
    ELSE IF row.atDef # 0 THEN DEFAULT_SETTINGS.apps[row.atDef].showInMenu
    ELSE FALSE

\* the onChange of the "Show in File-Menu" toggle of row i: a click hands over
\* the opposite of what the toggle shows
ToggleShowInMenu(i) ==
    /\ i \in 1..Len(rows)
    /\ Len(pending) < MaxPending
    /\ LET value == ~Shown(rows[i])
       IN  /\ settings' = [settings EXCEPT
                               !.apps = setShowInMenu(@, rows[i].at, value)]
           /\ DEFAULT_SETTINGS' = [DEFAULT_SETTINGS EXCEPT
                                       !.apps = setShowInMenu(@, rows[i].atDef, value)]
    /\ pending' = Save(settings', "return")
    /\ menu' = <<>>
    /\ out' = Out("toggle")
    /\ UNCHANGED <<persisted, aliased, commands, displayed, rows>>

\* a trash button that takes the command of its entry off the command table
RemoveClickUnregister(i) ==
    /\ i \in 1..Len(rows)
    /\ Len(pending) < MaxPending
    /\ WriteApps(remove(settings.apps, rows[i].at))
    /\ rows' = [j \in 1..Len(rows) |->
                  [rows[j] EXCEPT !.at = Moved(@, rows[i].at),
                                  !.atDef = IF aliased THEN Moved(@, rows[i].at) ELSE @]]
    /\ commands' = [k \in DOMAIN commands \ {OpenId(rows[i].app.name)} |-> commands[k]]
    /\ pending' = Save(settings', "display")
    /\ menu' = <<>>
    /\ out' = [Out("remove") EXCEPT !.notice = RemoveNotice, !.row = rows[i]]
    /\ UNCHANGED <<persisted, aliased, displayed>>

\* the onClick of the trash button of row i
RemoveClick(i) ==
    /\ i \in 1..Len(rows)
    /\ Len(pending) < MaxPending
    /\ WriteApps(remove(settings.apps, rows[i].at))
    /\ rows' = [j \in 1..Len(rows) |->
                  [rows[j] EXCEPT !.at = Moved(@, rows[i].at),
                                  !.atDef = IF aliased THEN Moved(@, rows[i].at) ELSE @]]
    /\ pending' = Save(settings', "display")
    /\ menu' = <<>>
    /\ out' = [Out("remove") EXCEPT !.notice = RemoveNotice, !.row = rows[i]]
    /\ UNCHANGED <<persisted, aliased, commands, displayed>>

\* the onChange of the "Show in system explorer" toggle, which shows
\* settings.sysexpInFileMenu: a click hands over the opposite
ToggleSysexp ==
    /\ displayed
    /\ Len(pending) < MaxPending
    /\ settings' = [settings EXCEPT !.sysexpInFileMenu = ~@]
    /\ pending' = Save(settings', "return")
    /\ menu' = <<>>
    /\ out' = Out("sysexp")
    /\ UNCHANGED <<persisted, DEFAULT_SETTINGS, aliased, commands, displayed, rows>>

\* the oldest save is written; the handler awaiting it goes on
SaveComplete ==
    /\ pending # <<>>
    /\ persisted' = Head(pending).doc
    /\ pending' = Tail(pending)
    /\ rows' = IF Head(pending).then = "display" THEN display(settings.apps, aliased)
               ELSE rows
    /\ out' = Out("saved")
    /\ UNCHANGED <<DEFAULT_SETTINGS, settings, aliased, commands, displayed, menu>>

\* loadSettings() called again on the running plugin
LoadSettings ==
    /\ settings' = loadSettings(DEFAULT_SETTINGS, persisted)
    /\ aliased' = loadAliases(persisted)
    /\ rows' = [j \in 1..Len(rows) |->
                  [rows[j] EXCEPT !.at = IF aliased' THEN rows[j].atDef ELSE 0]]
    /\ menu' = <<>>
    /\ out' = Out("loadSettings")
    /\ UNCHANGED <<persisted, DEFAULT_SETTINGS, commands, displayed, pending>>

\* the handlers of the settings tab, the completion of their saves, a restart
NextSettings ==
    \/ Restart
    \/ Display
    \/ \E in \in AddInputs : AddClick(in.name, in.code, in.args)
    \/ \E i \in 1..Len(rows) : ToggleShowInMenu(i)
    \/ \E i \in 1..Len(rows) : RemoveClick(i)
    \/ ToggleSysexp
    \/ SaveComplete

\* the commands and the file menu, which read the settings and leave them alone
NextUse ==
    \/ \E id \in DOMAIN commands, checking \in BOOLEAN,
          file \in Files \cup {NoFile}, win \in BOOLEAN :
            RunCommand(id, checking, file, win)
    \/ \E file \in Files : FileMenu(file)
    \/ \E i \in 1..Len(menu), win \in BOOLEAN : ClickMenuItem(i, win)

Next == NextSettings \/ NextUse

Spec == Init /\ [][Next]_vars

SpecSettings == Init /\ [][NextSettings]_vars

\* loads of the settings among additions and their saves
NextLoad ==
    \/ Restart
    \/ Display
    \/ \E in \in AddInputs : AddClick(in.name, in.code, in.args)
    \/ SaveComplete
    \/ LoadSettings

SpecLoad == Init /\ [][NextLoad]_vars

(***************************************************************************)
(* Properties.                                                             *)
(***************************************************************************)
BuiltInIds == {CopyId, ShowId}
Mutators == {"add", "remove", "toggle", "sysexp"}
Last(q) == q[Len(q)]

\* the kind of side effect each kind of command has
EffectKind(cmd) ==
    CASE cmd.kind = "copy" -> "clipboard"
      [] cmd.kind = "show" -> "reveal"
      [] OTHER -> "launch"

\* C1: a command callback has its side effect exactly when a document is
\* focused and the host calls it with checking = false; it returns true
\* exactly when a document is focused, and has no effect otherwise.
C1_CheckThenExecute ==
    out.op = "command" =>
        /\ out.ret = (out.file # NoFile)
        /\ (out.effects # <<>>) = (out.file # NoFile /\ ~out.checking)
        /\ Len(out.effects) <= 1
        /\ out.effects # <<>> =>
              out.effects[1].kind = EffectKind(commands[out.id])

\* an open-file-with command has launched its application
C1_Witness ==
    /\ out.op = "command"
    /\ out.id \notin BuiltInIds
    /\ ~out.checking
    /\ out.effects # <<>>
    /\ out.effects[1].kind = "launch"

\* C2: a click on "+" with an empty name or an empty code changes neither the
\* registry nor the commands nor the storage and shows a notice; with both
\* present the registry grows by one entry, appended at the end, whose
\* showInMenu is false.
C2_Add ==
    [][\A in \in AddInputs :
          AddClick(in.name, in.code, in.args) =>
              IF in.name = <<>> \/ in.code = <<>>
              THEN /\ settings' = settings
                   /\ commands' = commands
                   /\ pending' = pending
                   /\ persisted' = persisted
                   /\ out'.notice # ""
              ELSE /\ Len(settings'.apps) = Len(settings.apps) + 1
                   /\ SubSeq(settings'.apps, 1, Len(settings.apps)) = settings.apps
                   /\ Last(settings'.apps) =
                          [name |-> in.name, code |-> in.code,
                           arguments |-> in.args, showInMenu |-> FALSE]
                   /\ out'.notice = ""]_vars

\* an entry has been added behind another one
C2_Witness ==
    /\ out.op = "add"
    /\ out.notice = ""
    /\ Len(settings.apps) = 2
    /\ ~Last(settings.apps).showInMenu

\* C3: a click on the trash button of a row whose app object is in the registry
\* removes that object and nothing else, the other entries keeping their
\* order; when the object is in the registry no more, the registry stays as it
\* is.  Entries with equal fields are different objects.
C3_Remove ==
    [][\A i \in 1..Len(rows) :
          RemoveClick(i) =>
              LET at == rows[i].at
                  old == settings.apps
                  new == settings'.apps
              IN  IF at # 0
                  THEN /\ Len(new) = Len(old) - 1
                       /\ \A j \in 1..Len(new) :
                              new[j] = IF j < at THEN old[j] ELSE old[j + 1]
                       /\ rows'[i].at = 0
                       /\ settings'.sysexpInFileMenu = settings.sysexpInFileMenu
                  ELSE settings' = settings]_vars

\* an entry has been removed and an entry with the same fields is still there
C3_Witness ==
    /\ out.op = "remove"
    /\ out.row.at # 0
    /\ \E j \in 1..Len(settings.apps) : Captured(settings.apps[j]) = out.row.app

\* C4: whenever no save is in flight the stored document holds the settings in
\* memory: loading it gives them, and once a save has completed it is them.
C4_PersistedMatches ==
    pending = <<>> =>
        /\ loadSettings(DefaultSettingsLiteral, persisted) = settings
        /\ out.op = "saved" => persisted = settings

\* the last of several saves has completed, two entries added since the load
C4_Witness ==
    /\ pending = <<>>
    /\ out.op = "saved"
    /\ aliased
    /\ Len(settings.apps) = 2
    /\ settings.sysexpInFileMenu

\* the positions of the entries shown in the menu, and how many of them come
\* up to position i
ShownAt == {i \in 1..Len(settings.apps) : settings.apps[i].showInMenu}
Rank(i) == Cardinality({j \in ShownAt : j <= i})

\* C5: the menu built by a file-menu event holds one item "Open with {name}"
\* for each entry whose showInMenu is true, in the order of the registry, then
\* one item "Show in system explorer" exactly when sysexpInFileMenu is true,
\* and nothing else, for the settings as they are at the event.
C5_MenuFresh ==
    out.op = "file-menu" =>
        /\ Len(menu) = Cardinality(ShownAt)
                       + (IF settings.sysexpInFileMenu THEN 1 ELSE 0)
        /\ \A i \in ShownAt :
              /\ menu[Rank(i)].title = OpenTitle(settings.apps[i].name)
              /\ menu[Rank(i)].kind = "open"
              /\ menu[Rank(i)].app = Captured(settings.apps[i])
              /\ menu[Rank(i)].file = out.file
        /\ \A k \in 1..Len(menu) :
              (menu[k].title = ShowTitle)
                  = (settings.sysexpInFileMenu /\ k = Len(menu))

\* a menu built while the last edits are not yet stored: the first entry
\* hidden, the second shown, the explorer item on
C5_Witness ==
    /\ out.op = "file-menu"
    /\ pending # <<>>
    /\ Len(settings.apps) = 2
    /\ ~settings.apps[1].showInMenu
    /\ settings.apps[2].showInMenu
    /\ settings.sysexpInFileMenu
    /\ Len(menu) = 2

\* the tokens of a comma-separated list: none for the empty string
Tokens(s) == IF s = <<>> THEN <<>> ELSE split(s)

\* C6: activating "Open with {name}" requests one launch of the entry's code
\* with the file's absolute path and the comma-separated tokens of the
\* entry's arguments, the empty list when arguments is the empty string.
C6_MenuLaunch ==
    (out.op = "menu-click" /\ out.id # ShowTitle) =>
        /\ Len(out.effects) = 1
        /\ out.effects[1].kind = "launch"
        /\ out.effects[1].target = out.row.app.code
        /\ out.effects[1].path \in {getAbsolutePathOfFile(out.file, w) : w \in BOOLEAN}
        /\ out.effects[1].args = Tokens(out.row.app.arguments)

\* C7: every entry of the registry has a command registered under
\* "open-file-with-" + lowercase(name), and executing it launches what the
\* entry's menu item launches.
C7_CommandPerEntry ==
    \A i \in 1..Len(settings.apps) :
        LET e == settings.apps[i]
            id == OpenId(e.name)
        IN  /\ id \in DOMAIN commands
            /\ \A f \in Files, w \in BOOLEAN :
                  checkCallback(commands[id], f, FALSE, w).effects
                      = <<ItemEffect([title |-> OpenTitle(e.name), kind |-> "open",
                                      app |-> Captured(e), file |-> f], w)>>

\* the command of a row's app object is registered and launches its code
KeepsCommand(row, cmds) ==
    LET id == OpenId(row.app.name)
    IN  /\ id \in DOMAIN cmds
        /\ cmds[id].code = row.app.code
        /\ cmds[id].arguments = row.app.arguments

\* the commands onload registers for a document: the built-in ones and one per
\* id of its apps, which launches the last app of that id
OnloadExact(doc, cmds) ==
    LET apps == IF "apps" \in DOMAIN doc THEN doc.apps ELSE <<>>
    IN  /\ DOMAIN cmds = BuiltInIds \cup {OpenId(apps[i].name) : i \in 1..Len(apps)}
        /\ \A i \in 1..Len(apps) :
              (\A j \in (i + 1)..Len(apps) : OpenId(apps[j].name) # OpenId(apps[i].name))
                  => /\ cmds[OpenId(apps[i].name)].code = apps[i].code
                     /\ cmds[OpenId(apps[i].name)].arguments = apps[i].arguments

C9_NoInterleaving ==
    [][pending # <<>> => (settings' = settings \/ out'.op = "onload")]_vars

\* C9 amended: a handler runs alone from its start to its await, so the
\* document it hands to the save is the settings as its own change left them
\* and joins the saves in flight behind the earlier ones; other handlers may
\* run while it awaits.
C9_HandlerSegmentsAtomic ==
    [][Len(pending') > Len(pending) =>
          /\ out'.op \in Mutators
          /\ Len(pending') = Len(pending) + 1
          /\ SubSeq(pending', 1, Len(pending)) = pending
          /\ Last(pending').doc = settings']_vars

\* two handlers await their saves at once, the second having changed the
\* settings the first one saved
C9_Witness ==
    /\ Len(pending) = 2
    /\ pending[1].doc # pending[2].doc
    /\ out.op \in Mutators

\* C10: what a load leaves in memory depends on the stored document alone:
\* its fields over the defaults {apps: [], sysexpInFileMenu: false}; so two
\* loads of one document agree and a document without apps gives no apps.
C10_LoadDependsOnDocument ==
    out.op \in {"onload", "loadSettings"} =>
        settings = Assign(DefaultSettingsLiteral, persisted)

=============================================================================
